---- MODULE Spec2Model ----
(***************************************************************************)
(* Model of hw_6/terminal_ui.py: the menu engine (select), the validated   *)
(* input prompt, the confirmation prompt, the validators and the actions   *)
(* of the top-level menu, as a call stack of activations.                  *)
(*                                                                         *)
(* Python strings are TLA+ strings; the user-visible Russian literals are  *)
(* written in ASCII.  A frame of `stack` is one activation of a Python     *)
(* function; `ret` is the value the last finished activation returned.     *)
(***************************************************************************)
EXTENDS Integers, Sequences, FiniteSets, TLC

VARIABLES
    stack,      \* call stack, innermost activation last
    ret,        \* return value of the activation that finished last
    status,     \* "running" | "exited" (sys.exit) | "failed" (uncaught exception)
    cwd,        \* os.getcwd()
    fs,         \* regular files of each directory
    header,     \* what menu_head printed last: the directory in the header
    conv,       \* the last call into a conversion library: <<kind, file, value>>
    rm,         \* the last rm_files_* call: listing, removed files, lines printed
    calls,      \* the stand-in callables invoked so far, in order
    probe       \* validator bench: the validator applied, its argument, its outcome

vars == <<stack, ret, status, cwd, fs, header, conv, rm, calls, probe>>

---------------------------------------------------------------------------
(* Bounds *)

MaxLen == 5          \* longest string given to a validator on the bench
MaxPrompts == 3      \* prompts of one validated_input call that are counted
MaxDepth == 2        \* nested activations of main_menu
MaxButtons == 3      \* buttons of a select call on the bench

---------------------------------------------------------------------------
(* Python str operations *)

Char(s, i) == SubSeq(s, i, i)

\* s.startswith(p)
StartsWith(s, p) == Len(p) <= Len(s) /\ SubSeq(s, 1, Len(p)) = p

\* s.endswith(p)
EndsWith(s, p) == Len(p) <= Len(s) /\ SubSeq(s, Len(s) - Len(p) + 1, Len(s)) = p

\* p in s
Contains(s, p) == \E i \in 1..(Len(s) - Len(p) + 1) : SubSeq(s, i, i + Len(p) - 1) = p

\* s.find(p) + 1: the first position where p occurs in s, 0 when it does not
Find(s, p) ==
    IF Contains(s, p)
    THEN CHOOSE i \in 1..(Len(s) - Len(p) + 1) :
            /\ SubSeq(s, i, i + Len(p) - 1) = p
            /\ \A j \in 1..(i - 1) : SubSeq(s, j, j + Len(p) - 1) # p
    ELSE 0

\* s.split(sep) with an explicit, non-empty sep: empty tokens are kept
RECURSIVE Split(_, _)
Split(s, sep) ==
    LET k == Find(s, sep) IN
    IF k = 0 THEN <<s>>
    ELSE <<SubSeq(s, 1, k - 1)>> \o Split(SubSeq(s, k + Len(sep), Len(s)), sep)

\* "\n".join(lines)
RECURSIVE Join(_)
Join(lines) ==
    IF Len(lines) = 0 THEN ""
    ELSE IF Len(lines) = 1 THEN lines[1]
    ELSE lines[1] \o "\n" \o Join(Tail(lines))

Whitespace == {" ", "\t"}
Digits == {"0", "1", "2", "3", "4", "5", "6", "7", "8", "9"}

\* s.isspace()
IsSpace(s) == Len(s) > 0 /\ \A i \in 1..Len(s) : Char(s, i) \in Whitespace

\* s.strip()
RECURSIVE LStrip(_)
LStrip(s) ==
    IF Len(s) > 0 /\ Char(s, 1) \in Whitespace THEN LStrip(SubSeq(s, 2, Len(s))) ELSE s

RECURSIVE RStrip(_)
RStrip(s) ==
    IF Len(s) > 0 /\ Char(s, Len(s)) \in Whitespace
    THEN RStrip(SubSeq(s, 1, Len(s) - 1)) ELSE s

Strip(s) == RStrip(LStrip(s))

AllDigits(s) == \A i \in 1..Len(s) : Char(s, i) \in Digits

\* one optional leading sign removed
Unsigned(s) ==
    IF Len(s) > 0 /\ Char(s, 1) \in {"-", "+"} THEN SubSeq(s, 2, Len(s)) ELSE s

\* digits [. digits] or . digits, at least one digit
IsMantissa(s) ==
    LET k == Find(s, ".") IN
    IF k = 0 THEN Len(s) > 0 /\ AllDigits(s)
    ELSE /\ AllDigits(SubSeq(s, 1, k - 1))
         /\ AllDigits(SubSeq(s, k + 1, Len(s)))
         /\ Len(s) > 1

\* float(s) does not raise ValueError (digit grouping with "_" is not modelled)
ParsesAsFloat(s) ==
    LET body == Unsigned(Strip(s))
        e == IF Find(body, "e") # 0 THEN Find(body, "e") ELSE Find(body, "E")
    IN  \/ body \in {"inf", "infinity", "nan"}
        \/ e = 0 /\ IsMantissa(body)
        \/ /\ e # 0
           /\ IsMantissa(SubSeq(body, 1, e - 1))
           /\ LET x == Unsigned(SubSeq(body, e + 1, Len(body)))
              IN Len(x) > 0 /\ AllDigits(x)

\* int(s) does not raise ValueError (digit grouping with "_" is not modelled)
ParsesAsInt(s) ==
    LET body == Unsigned(Strip(s)) IN Len(body) > 0 /\ AllDigits(body)

---------------------------------------------------------------------------
(* The file system *)

Dirs == {"/p", "/q"}

\* os.listdir order of every name a directory may hold
DirOrder == <<"draft1.pdf", "b.pdf", "my_draft.docx", "c.docx", "e.png", "f.ext">>

InitFs == [d \in Dirs |-> IF d = "/p" THEN {DirOrder[i] : i \in 1..Len(DirOrder)} ELSE {}]

---------------------------------------------------------------------------
(* Validators.  A validator either passes or raises ValidationError(msg). *)

Pass == [ok |-> TRUE, msg |-> ""]
Raise(m) == [ok |-> FALSE, msg |-> m]

\* A configured validator: its function, and the parameters of the two
\* validator factories (elems: the names of the element validators).
Validator(name) == [v |-> name, n |-> 0, sep |-> "", elems |-> <<>>]
ListLen(length, sep) == [v |-> "list_len_validator", n |-> length, sep |-> sep, elems |-> <<>>]
ListElems(sep, elems) == [v |-> "list_elems_validator", n |-> 0, sep |-> sep, elems |-> elems]

not_empty(value) ==
    IF Len(value) = 0 \/ IsSpace(value)
    THEN Raise("Value must not be empty.")
    ELSE Pass

\* a validate that accepts any string with at least `length` tokens
list_len_validator_at_least(length, sep, value) ==
    IF Len(Split(value, sep)) < length
    THEN Raise("The number of elements must be " \o ToString(length)
               \o ". Now " \o ToString(Len(Split(value, sep))) \o ".")
    ELSE Pass

list_len_validator(length, sep, value) ==
    IF Len(Split(value, sep)) # length
    THEN Raise("The number of elements must be " \o ToString(length)
               \o ". Now " \o ToString(Len(Split(value, sep))) \o ".")
    ELSE Pass

only_digit_validator(value) ==
    IF ~ParsesAsFloat(value)
    THEN Raise("Value '" \o value \o "' is not a number.")
    ELSE Pass

\* a path validator that lets every value through
is_path_valid_any(v) == Pass

is_path_valid(v) ==
    IF ~(v \in Dirs)
    THEN Raise("Path " \o v \o " is incorrect.")
    ELSE Pass

\* the validators that take the value alone
ElemValidate(name, value) ==
    CASE name = "not_empty" -> not_empty(value)
      [] name = "only_digit_validator" -> only_digit_validator(value)
      [] name = "is_path_valid" -> is_path_valid(value)
      [] name = "none" -> Pass       \* lambda _: None, the default element validator

\* the line list_elems_validator appends for element elem at enumerate index i
ElemErrorLine(elem, i, msg) ==
    "Error for element '" \o elem \o "' at number " \o ToString(i) \o ": " \o msg

\* the inner loop of list_elems_validator: the lines of one element
RECURSIVE ElemErrors(_, _, _)
ElemErrors(elem, i, validators) ==
    IF Len(validators) = 0 THEN <<>>
    ELSE LET r == ElemValidate(Head(validators), elem)
         IN (IF r.ok THEN <<>> ELSE <<ElemErrorLine(elem, i, r.msg)>>)
            \o ElemErrors(elem, i, Tail(validators))

\* the outer loop of list_elems_validator: elements from enumerate index i on
RECURSIVE ListErrors(_, _, _)
ListErrors(elems, i, validators) ==
    IF Len(elems) = 0 THEN <<>>
    ELSE ElemErrors(Head(elems), i, validators) \o ListErrors(Tail(elems), i + 1, validators)

\* a validate that gives up at the first failing pair
list_elems_validator_first(sep, elem_validators, value) ==
    LET errors == ListErrors(Split(value, sep), 0, elem_validators)
    IN IF Len(errors) # 0 THEN Raise(errors[1]) ELSE Pass

list_elems_validator(sep, elem_validators, value) ==
    LET errors == ListErrors(Split(value, sep), 0, elem_validators)
    IN IF Len(errors) # 0 THEN Raise(Join(errors)) ELSE Pass

\* validator(value) for a configured validator
Validate(validator, value) ==
    CASE validator.v = "list_len_validator" ->
            list_len_validator(validator.n, validator.sep, value)
      [] validator.v = "list_elems_validator" ->
            list_elems_validator(validator.sep, validator.elems, value)
      [] OTHER -> ElemValidate(validator.v, value)

---------------------------------------------------------------------------
(* Validator bench: one validator applied to one string. *)

BenchAlphabet == {"1", "2", "3", "x", " "}

RECURSIVE StringsUpTo(_)
StringsUpTo(n) ==
    IF n = 0 THEN {""}
    ELSE LET shorter == StringsUpTo(n - 1)
         IN shorter \cup {s \o c : s \in {t \in shorter : Len(t) = n - 1}, c \in BenchAlphabet}

BenchStrings == StringsUpTo(MaxLen) \cup {"a b c", "a b", "3.14", "-2", "abc", "/p"}

BenchValidators ==
    { Validator("not_empty"), Validator("only_digit_validator"), Validator("is_path_valid"),
      ListLen(3, " "), ListLen(2, " "),
      ListElems(" ", <<"only_digit_validator">>),
      ListElems(" ", <<"only_digit_validator", "not_empty">>),
      ListElems(" ", <<"none">>) }

NoProbe == [v |-> Validator("none"), arg |-> "", res |-> Pass, done |-> TRUE]

---------------------------------------------------------------------------
(* The call stack *)

None == "None"

Top == stack[Len(stack)]
Running == status = "running" /\ Len(stack) > 0
At(fn, pc) == Running /\ Top.fn = fn /\ Top.pc = pc

SetTop(f) == [stack EXCEPT ![Len(stack)] = f]
Goto(pc) == SetTop([Top EXCEPT !.pc = pc])
Pop == SubSeq(stack, 1, Len(stack) - 1)
\* the caller moves to pc and the callee's activation starts
CallFrom(pc, frame) == Append(Goto(pc), frame)

\* a select whose press of the button is inside a try statement
CatchesInSelect(f, exc) == f.fn = "select" /\ f.pc = "return"

\* activation f is inside a try statement that catches exc.  The program has
\* two try statements, both around the call of a validator: validated_input
\* catches ValidationError there (list_elems_validator's is inside the
\* validator, which is evaluated in one step).
Catches(f, exc) ==
    f.fn = "validated_input" /\ f.pc = "validate" /\ exc = "ValidationError"

\* the innermost activation that catches exc, 0 when there is none
Handler(exc) ==
    LET hs == {i \in 1..Len(stack) : Catches(stack[i], exc)}
    IN IF hs = {} THEN 0 ELSE CHOOSE i \in hs : \A j \in hs : j <= i

\* exc is raised in the innermost activation: the activations above the
\* handler are left; with no handler the process ends with a traceback (the
\* stack is kept as it was when the exception was raised)
Throw(exc) ==
    /\ status' = IF Handler(exc) = 0 THEN "failed" ELSE status
    /\ stack' = IF Handler(exc) = 0 THEN stack ELSE SubSeq(stack, 1, Handler(exc))

\* number of activations of main_menu on the stack
Depth == Cardinality({i \in 1..Len(stack) : stack[i].fn = "main_menu"})

\* a callable: what it runs (k) and the values bound into it (arg)
Callable(k, arg) == [k |-> k, arg |-> arg]

\* Button(name, action)
Button(name, action) == [name |-> name, action |-> action]

\* the activation a callable starts when it is called
ActionFrame(action) == [fn |-> action.k, pc |-> "start", arg |-> action.arg]

\* non_selectable_buttons: None, or a list of buttons
NoButtons == [none |-> TRUE, list |-> <<>>]
Buttons(list) == [none |-> FALSE, list |-> list]

SelectFrame(buttons, non_selectable_buttons, on_render, print_selected_option) ==
    [fn |-> "select", pc |-> "on_render",
     buttons |-> buttons,
     non_selectable_buttons |-> non_selectable_buttons,
     on_render |-> on_render,
     print_selected_option |-> print_selected_option,
     indices |-> <<>>,           \* non_selectable_button_indices, 0-based
     selected_index |-> 0,       \* the cursor of cutie.select, 0-based
     ev |-> <<>>]                \* what this call has done so far, in order

ValidatedInputFrame(validators, on_successful_confirm) ==
    [fn |-> "validated_input", pc |-> "input",
     validators |-> validators,
     on_successful_confirm |-> on_successful_confirm,
     value |-> None,             \* the line read last
     prev |-> None,              \* the line read before it
     prompts |-> 1,              \* prompts displayed by this call, up to MaxPrompts
     errors |-> <<>>,            \* the messages printed after the last read
     hooks |-> 0]                \* calls of on_successful_confirm by this call

ConfirmationFrame(on_confirm, on_reject) ==
    [fn |-> "confirmation_prompt", pc |-> "prompt",
     on_confirm |-> on_confirm,
     on_reject |-> on_reject,
     invoked |-> <<>>]           \* the continuations this call invoked

MainMenuFrame == [fn |-> "main_menu", pc |-> "menu_head"]

\* lambda: None
NoAction == Callable("none", <<>>)

\* the activation that calling a callable starts: lambda: main_menu() starts
\* main_menu, lambda: validated_input("...", validators=[is_path_valid]) starts
\* validated_input, any other callable starts its own body
FrameFor(action) ==
    CASE action.k = "main_menu" -> MainMenuFrame
      [] action.k = "input_path" ->
            ValidatedInputFrame(<<Validator("is_path_valid")>>, NoAction)
      [] OTHER -> ActionFrame(action)

NoConv == [lib |-> None, files |-> <<>>, quality |-> None]
NoRm == [called |-> FALSE, fn |-> None, s |-> None, files |-> <<>>, removed |-> {},
         printed |-> 0]

---------------------------------------------------------------------------
(* select *)

ButtonNames(buttons) == [i \in 1..Len(buttons) |-> buttons[i].name]

\* an index that takes a name that is not there for the first name
IndexOfOrFirst(button_names, name) ==
    IF \E i \in 1..Len(button_names) : button_names[i] = name
    THEN (CHOOSE i \in 1..Len(button_names) :
            /\ button_names[i] = name
            /\ \A j \in 1..(i - 1) : button_names[j] # name) - 1
    ELSE 0

\* button_names.index(name): 0-based, -1 standing for ValueError
IndexOf(button_names, name) ==
    IF \E i \in 1..Len(button_names) : button_names[i] = name
    THEN (CHOOSE i \in 1..Len(button_names) :
            /\ button_names[i] = name
            /\ \A j \in 1..(i - 1) : button_names[j] # name) - 1
    ELSE -1

InSeq(x, s) == \E i \in 1..Len(s) : s[i] = x

\* on_render()
select_on_render ==
    /\ At("select", "on_render")
    /\ LET after == SetTop([Top EXCEPT !.pc = "resolve", !.ev = Append(@, "on_render")])
       IN stack' = IF Top.on_render.k \in {"none", "clear"} THEN after
                   ELSE Append(after, FrameFor(Top.on_render))
    /\ UNCHANGED <<ret, status, cwd, fs, header, conv, rm, calls, probe>>

\* lines 103-114 up to the widget's first display: the indices of the
\* non-selectable names; a name that is not displayed raises ValueError
select_resolve ==
    /\ At("select", "resolve")
    /\ LET names == ButtonNames(Top.buttons)
           nsb == Top.non_selectable_buttons
           indices == [i \in 1..Len(nsb.list) |-> IndexOf(names, nsb.list[i].name)]
       IN IF ~nsb.none /\ InSeq(-1, indices)
          THEN Throw("ValueError")
          ELSE /\ status' = status
               /\ stack' = SetTop([Top EXCEPT !.pc = "cutie_select",
                                              !.indices = indices,
                                              !.selected_index = 0,
                                              !.ev = Append(@, "list")])
    /\ UNCHANGED <<ret, cwd, fs, header, conv, rm, calls, probe>>

\* cutie.select, key up: the cursor moves to the nearest selectable index above
cutie_key_up ==
    /\ At("select", "cutie_select")
    /\ LET above == {i \in 0..(Top.selected_index - 1) : ~InSeq(i, Top.indices)}
       IN /\ above # {}
          /\ stack' = SetTop([Top EXCEPT !.selected_index =
                                CHOOSE i \in above : \A j \in above : j <= i])
    /\ UNCHANGED <<ret, status, cwd, fs, header, conv, rm, calls, probe>>

\* cutie.select, key down: the cursor moves to the nearest selectable index below
cutie_key_down ==
    /\ At("select", "cutie_select")
    /\ LET below == {i \in (Top.selected_index + 1)..(Len(Top.buttons) - 1) :
                        ~InSeq(i, Top.indices)}
       IN /\ below # {}
          /\ stack' = SetTop([Top EXCEPT !.selected_index =
                                CHOOSE i \in below : \A j \in below : i <= j])
    /\ UNCHANGED <<ret, status, cwd, fs, header, conv, rm, calls, probe>>

\* cutie.select, enter: the widget returns the cursor
cutie_key_confirm ==
    /\ At("select", "cutie_select")
    /\ stack' = SetTop([Top EXCEPT !.pc = "print_selected",
                                   !.ev = Append(@, "selected")])
    /\ UNCHANGED <<ret, status, cwd, fs, header, conv, rm, calls, probe>>

\* a select that prints the choice whatever print_selected_option is
select_print_always ==
    /\ At("select", "print_selected")
    /\ stack' = SetTop([Top EXCEPT !.pc = "press", !.ev = Append(@, "print")])
    /\ UNCHANGED <<ret, status, cwd, fs, header, conv, rm, calls, probe>>

\* if print_selected_option: print(...)
select_print_selected ==
    /\ At("select", "print_selected")
    /\ stack' = SetTop([Top EXCEPT !.pc = "press",
                                   !.ev = IF Top.print_selected_option
                                          THEN Append(@, "print") ELSE @])
    /\ UNCHANGED <<ret, status, cwd, fs, header, conv, rm, calls, probe>>

\* a press of the first button whatever the index chosen
PressedFirst(f) == f.buttons[1]

\* the button select presses
PressedButton(f) == f.buttons[f.selected_index + 1]

\* buttons[pressed_button_index].press()
select_press ==
    /\ At("select", "press")
    /\ LET action == PressedButton(Top).action
       IN /\ action.k = "main_menu" => Depth < MaxDepth
          /\ stack' = Append(SetTop([Top EXCEPT !.pc = "return",
                                                !.ev = Append(@, "press")]),
                             FrameFor(action))
    /\ UNCHANGED <<ret, status, cwd, fs, header, conv, rm, calls, probe>>

\* a function that returns None returns
return_none ==
    /\ Running
    /\ Top.pc = "return"
    /\ stack' = Pop
    /\ ret' = None
    /\ UNCHANGED <<status, cwd, fs, header, conv, rm, calls, probe>>

\* a stand-in callable (a button's action, a continuation, a hook) runs:
\* it records its name and returns it
stub_run ==
    /\ At("stub", "start")
    /\ calls' = Append(calls, Top.arg[1])
    /\ ret' = Top.arg[1]
    /\ stack' = Pop
    /\ UNCHANGED <<status, cwd, fs, header, conv, rm, probe>>

---------------------------------------------------------------------------
(* validated_input *)

\* every line the user may type
InputLines == {"", " ", "ok", "draft", "1", "1.5", "/q"}

\* a for loop that stops at the first validator that raises
RECURSIVE ErrorsUntilFirst(_, _)
ErrorsUntilFirst(validators, value) ==
    IF Len(validators) = 0 THEN <<>>
    ELSE LET r == Validate(Head(validators), value)
         IN IF r.ok THEN ErrorsUntilFirst(Tail(validators), value) ELSE <<r.msg>>

\* the for loop of validated_input: the messages of the validators that raise
RECURSIVE Errors(_, _)
Errors(validators, value) ==
    IF Len(validators) = 0 THEN <<>>
    ELSE LET r == Validate(Head(validators), value)
         IN (IF r.ok THEN <<>> ELSE <<r.msg>>) \o Errors(Tail(validators), value)

\* a test that lets a line with one error through
RejectedIfSeveral(errors) == Len(errors) > 1

\* if len(errors) > 0
Rejected(errors) == Len(errors) > 0

\* a prompt that gives up after its second prompt and takes the line
AfterValidateTwice(f, errors) ==
    IF Rejected(errors) /\ f.prompts < 2 THEN "input" ELSE "on_successful_confirm"

\* where validated_input goes on after the errors of a line are collected
AfterValidate(f, errors) ==
    IF Rejected(errors) THEN "input" ELSE "on_successful_confirm"

\* value = input(...): the user types line
vi_read(line) ==
    /\ At("validated_input", "input")
    /\ stack' = SetTop([Top EXCEPT !.pc = "validate",
                                   !.value = line,
                                   !.prev = Top.value,
                                   !.errors = <<>>])
    /\ UNCHANGED <<ret, status, cwd, fs, header, conv, rm, calls, probe>>

vi_input == \E line \in InputLines : vi_read(line)

\* lines 73-83: the validators run, and the errors are printed if there are any
vi_validate ==
    /\ At("validated_input", "validate")
    /\ LET errors == Errors(Top.validators, Top.value)
       IN stack' = SetTop([Top EXCEPT
                !.errors = errors,
                !.prompts = IF Rejected(errors) /\ @ < MaxPrompts THEN @ + 1 ELSE @,
                !.pc = AfterValidate(Top, errors)])
    /\ UNCHANGED <<ret, status, cwd, fs, header, conv, rm, calls, probe>>

\* on_successful_confirm()
vi_on_successful_confirm ==
    /\ At("validated_input", "on_successful_confirm")
    /\ LET after == SetTop([Top EXCEPT !.pc = "return_value", !.hooks = @ + 1])
       IN stack' = IF Top.on_successful_confirm = NoAction THEN after
                   ELSE Append(after, FrameFor(Top.on_successful_confirm))
    /\ UNCHANGED <<ret, status, cwd, fs, header, conv, rm, calls, probe>>

\* return value
vi_return ==
    /\ At("validated_input", "return_value")
    /\ ret' = Top.value
    /\ stack' = Pop
    /\ UNCHANGED <<status, cwd, fs, header, conv, rm, calls, probe>>

---------------------------------------------------------------------------
(* confirmation_prompt *)

\* a dispatch that always takes on_confirm
ContinuationConfirmOnly(f, answer) == f.on_confirm

\* the continuation confirmation_prompt calls for the widget's answer
Continuation(f, answer) == IF answer THEN f.on_confirm ELSE f.on_reject

\* cutie.prompt_yes_or_no returns the user's answer and the continuation is called
cp_prompt ==
    /\ At("confirmation_prompt", "prompt")
    /\ \E answer \in BOOLEAN :
        LET c == Continuation(Top, answer)
            after == SetTop([Top EXCEPT !.pc = "return_result",
                                        !.invoked = Append(@, [answer |-> answer,
                                                               callable |-> c])])
        IN stack' = Append(after, FrameFor(c))
    /\ UNCHANGED <<ret, status, cwd, fs, header, conv, rm, calls, probe>>

\* return on_confirm() / return on_reject()
cp_return ==
    /\ At("confirmation_prompt", "return_result")
    /\ ret' = ret
    /\ stack' = Pop
    /\ UNCHANGED <<status, cwd, fs, header, conv, rm, calls, probe>>

\* os.getcwd(), the on_reject of change_dir
getcwd_run ==
    /\ At("getcwd", "start")
    /\ ret' = cwd
    /\ stack' = Pop
    /\ UNCHANGED <<status, cwd, fs, header, conv, rm, calls, probe>>

---------------------------------------------------------------------------
(* Component bench: one call of select, of validated_input or of           *)
(* confirmation_prompt, with stand-in callables.                           *)

Stub(name) == Callable("stub", <<name>>)

RECURSIVE SeqsUpTo(_, _)
SeqsUpTo(S, n) ==
    IF n = 0 THEN {<<>>}
    ELSE LET shorter == SeqsUpTo(S, n - 1)
         IN shorter \cup {Append(s, x) : s \in {u \in shorter : Len(u) = n - 1}, x \in S}

\* the button at 0-based position i of a bench list runs the stand-in "b<i>"
BenchButtons(names) ==
    [i \in 1..Len(names) |-> Button(names[i], Stub("b" \o ToString(i - 1)))]

BenchSelectFrames ==
    { SelectFrame(BenchButtons(names), nsb, on_render, echo) :
        names \in SeqsUpTo({"A", "B", "C"}, MaxButtons) \ {<<>>},
        nsb \in {NoButtons} \cup
                { Buttons([i \in 1..Len(ns) |-> Button(ns[i], NoAction)]) :
                    ns \in SeqsUpTo({"A", "B", "Z"}, 2) },
        on_render \in {NoAction, Stub("on_render")},
        echo \in BOOLEAN }

BenchValidatorLists ==
    { <<>>,
      <<Validator("not_empty")>>,
      <<Validator("only_digit_validator"), Validator("not_empty")>>,
      <<Validator("is_path_valid")>>,
      <<ListLen(1, " "), ListElems(" ", <<"only_digit_validator", "not_empty">>)>> }

BenchInputFrames ==
    { ValidatedInputFrame(validators, hook) :
        validators \in BenchValidatorLists, hook \in {NoAction, Stub("hook")} }

BenchConfirmationFrames ==
    { ConfirmationFrame(on_confirm, on_reject) :
        on_confirm \in {Stub("on_confirm"), Callable("input_path", <<>>), NoAction},
        on_reject \in {Stub("on_reject"), Callable("getcwd", <<>>), NoAction} }

\* lambda: None runs
none_run ==
    /\ At("none", "start")
    /\ ret' = None
    /\ stack' = Pop
    /\ UNCHANGED <<status, cwd, fs, header, conv, rm, calls, probe>>

InitComponents ==
    /\ stack \in { <<f>> : f \in BenchSelectFrames \cup BenchInputFrames
                                  \cup BenchConfirmationFrames }
    /\ ret = None
    /\ status = "running"
    /\ cwd = "/p"
    /\ fs = InitFs
    /\ header = None
    /\ conv = NoConv
    /\ rm = NoRm
    /\ calls = <<>>
    /\ probe = NoProbe

NextComponents ==
    \/ select_on_render
    \/ select_resolve
    \/ cutie_key_up
    \/ cutie_key_down
    \/ cutie_key_confirm
    \/ select_print_selected
    \/ select_press
    \/ return_none
    \/ stub_run
    \/ none_run
    \/ vi_input
    \/ vi_validate
    \/ vi_on_successful_confirm
    \/ vi_return
    \/ cp_prompt
    \/ cp_return
    \/ getcwd_run

Components == InitComponents /\ [][NextComponents]_vars

\* the user types a line that passes every validator
vi_accept ==
    \E line \in InputLines :
        /\ At("validated_input", "input")
        /\ ~Rejected(Errors(Top.validators, line))
        /\ vi_read(line)

InitInput ==
    /\ InitComponents
    /\ stack[1].fn = "validated_input"
    /\ stack[1].on_successful_confirm = NoAction

NextInput ==
    \/ vi_input
    \/ vi_validate
    \/ vi_on_successful_confirm
    \/ vi_return

\* One call of validated_input.  Every step of the program is taken once it
\* can be (one thread, nothing else running); the user eventually types a
\* line that passes.
FairInput ==
    /\ InitInput
    /\ [][NextInput]_vars
    /\ WF_vars(vi_validate \/ vi_on_successful_confirm \/ vi_return)
    /\ SF_vars(vi_accept)

---------------------------------------------------------------------------
(* Claims about the components *)

\* the outermost activation of the bench
Bench == stack[1]
BenchIs(fn) == Len(stack) >= 1 /\ Bench.fn = fn

DistinctNames(buttons) ==
    \A i, j \in 1..Len(buttons) : buttons[i].name = buttons[j].name => i = j

\* the button at the 0-based index i is listed in non_selectable_buttons
ListedNonSelectable(f, i) ==
    /\ ~f.non_selectable_buttons.none
    /\ \E k \in 1..Len(f.non_selectable_buttons.list) :
            f.non_selectable_buttons.list[k].name = f.buttons[i + 1].name

\* the stand-in button callables invoked so far
ButtonCalls == SelectSeq(calls, LAMBDA c : c \notin {"on_render", "hook", "on_confirm", "on_reject"})

\* C1: in a call of select with pairwise-distinct button names the index
\* chosen is never that of a button listed in non_selectable_buttons, and once
\* the user has confirmed index i the callable of buttons[i] has been invoked
\* exactly once and no other button's callable at all.
C1_SelectChoosesSelectableOnce ==
    (BenchIs("select") /\ DistinctNames(Bench.buttons)) =>
        /\ Bench.pc \in {"print_selected", "press", "return"} =>
                ~ListedNonSelectable(Bench, Bench.selected_index)
        /\ Bench.pc \in {"on_render", "resolve", "cutie_select", "print_selected", "press"} =>
                ButtonCalls = <<>>
        /\ (Bench.pc = "return" /\ Len(stack) = 1) =>
                ButtonCalls = <<"b" \o ToString(Bench.selected_index)>>

\* the messages of the validators that fail on value, one per validator, in
\* validator order
FailedMessages(validators, value) ==
    LET failing == {i \in 1..Len(validators) : ~Validate(validators[i], value).ok}
        nth(k) == CHOOSE i \in failing : Cardinality({j \in failing : j < i}) = k - 1
    IN [k \in 1..Cardinality(failing) |-> Validate(validators[nth(k)], value).msg]

\* what holds of a call of validated_input in every state
C2_State ==
    \A n \in 1..Len(stack) :
        LET f == stack[n] IN
        f.fn = "validated_input" =>
            /\ f.pc \in {"input", "validate"} => f.hooks = 0
            /\ f.pc = "on_successful_confirm" =>
                    f.hooks = 0 /\ FailedMessages(f.validators, f.value) = <<>>
            /\ f.pc = "return_value" =>
                    /\ f.hooks = 1
                    /\ FailedMessages(f.validators, f.value) = <<>>
            /\ (f.on_successful_confirm = Stub("hook") /\ n = 1) =>
                    /\ f.pc # "return_value" => calls = <<>>
                    /\ (f.pc = "return_value" /\ Len(stack) = 1) => calls = <<"hook">>
            /\ f.value = None <=> (f.pc = "input" /\ f.prompts = 1)
            /\ (f.pc = "input" /\ f.prompts = 2 /\ MaxPrompts > 2) =>
                    f.prev = None /\ FailedMessages(f.validators, f.value) # <<>>
            /\ (f.validators = <<Validator("not_empty")>> /\ f.prev = ""
                    /\ f.value = "ok") =>
                    f.prompts >= 2 /\ f.pc # "input"

\* what holds of the step that ends a call of validated_input
C2_Return ==
    (Running /\ Top.fn = "validated_input" /\ Len(stack') < Len(stack)) =>
        /\ Top.pc = "return_value"
        /\ ret' = Top.value
        /\ status' = "running"

\* C2: validated_input returns only when the line read last made no
\* validator fail, it returns exactly that line, and the post-success hook is
\* invoked exactly once, after the accepting read and before the return, never
\* after a rejected read; with [not_empty] and the lines "" then "ok" it
\* prompts again exactly once and returns "ok".
C2_ReturnsAcceptedLineAfterHook == []C2_State /\ [][C2_Return]_vars

C2_Witness ==
    /\ BenchIs("validated_input")
    /\ Bench.validators = <<Validator("not_empty")>>
    /\ Bench.on_successful_confirm = Stub("hook")
    /\ Bench.prompts = 2
    /\ Bench.prev = ""
    /\ Bench.value = "ok"
    /\ Bench.pc = "return_value"
    /\ calls = <<"hook">>

\* C3: when validated_input prompts again, the messages displayed since the
\* last read are those of all the validators that failed on the line read,
\* one per failed validator, in validator order: a failure does not stop the
\* validators after it from running.
C3_AllFailuresDisplayed ==
    \A n \in 1..Len(stack) :
        LET f == stack[n] IN
        (f.fn = "validated_input" /\ f.pc = "input" /\ f.value # None) =>
            /\ f.errors = FailedMessages(f.validators, f.value)
            /\ Len(f.errors) > 0

C3_Witness ==
    /\ BenchIs("validated_input")
    /\ Bench.validators = <<Validator("only_digit_validator"), Validator("not_empty")>>
    /\ Bench.pc = "input"
    /\ Bench.value = " "
    /\ Len(Bench.errors) = 2

\* C4: a call of confirmation_prompt invokes exactly one continuation,
\* on_confirm when the user confirms and on_reject when the user rejects, and
\* returns what that continuation returned.
C4_ExactlyOneContinuation ==
    /\ \A n \in 1..Len(stack) :
        LET f == stack[n] IN
        f.fn = "confirmation_prompt" =>
            /\ f.pc = "prompt" => f.invoked = <<>>
            /\ f.pc = "return_result" =>
                /\ Len(f.invoked) = 1
                /\ f.invoked[1].callable =
                        IF f.invoked[1].answer THEN f.on_confirm ELSE f.on_reject
    /\ (BenchIs("confirmation_prompt") /\ Bench.on_confirm = Stub("on_confirm")
            /\ Bench.on_reject = Stub("on_reject")) =>
        /\ Bench.pc = "prompt" => calls = <<>>
        /\ (Bench.pc = "return_result" /\ Len(stack) = 1) =>
            /\ calls = <<IF Bench.invoked[1].answer THEN "on_confirm" ELSE "on_reject">>
            /\ ret = calls[1]
    /\ (stack = <<>> /\ Len(calls) = 1 /\ calls[1] \in {"on_confirm", "on_reject"}) =>
            ret = calls[1]

C4_Witness ==
    /\ stack = <<>>
    /\ calls = <<"on_reject">>
    /\ ret = "on_reject"

\* a step in which validated_input finds the line read rejected
C9_RejectingStep ==
    /\ Running
    /\ Top.fn = "validated_input"
    /\ Top.pc = "validate"
    /\ FailedMessages(Top.validators, Top.value) # <<>>

\* C9: validated_input has no retry limit: a line that fails a validator
\* always leads back to the prompt, in the same call and with the process
\* still running, however many lines were rejected before; and if the user
\* eventually types a line that passes, the call eventually returns.
C9_NoRetryLimit ==
    /\ [][C9_RejectingStep =>
            /\ status' = "running"
            /\ Len(stack') = Len(stack)
            /\ stack'[Len(stack)].fn = "validated_input"
            /\ stack'[Len(stack)].pc = "input"]_vars
    /\ BenchIs("validated_input") ~> (stack = <<>>)

C9_Witness ==
    /\ BenchIs("validated_input")
    /\ Bench.pc = "input"
    /\ Bench.prompts = MaxPrompts
    /\ FailedMessages(Bench.validators, Bench.prev) # <<>>
    /\ FailedMessages(Bench.validators, Bench.value) # <<>>

IsPrefix(a, b) == Len(a) <= Len(b) /\ SubSeq(b, 1, Len(a)) = a

\* what a complete call of select does, in order
SelectOrder(f) ==
    <<"on_render", "list", "selected">>
    \o (IF f.print_selected_option THEN <<"print">> ELSE <<>>)
    \o <<"press">>

\* C12: within one call of select the pre-render hook runs, then the list is
\* displayed and one selection awaited, then the chosen name is printed iff
\* print_selected_option is set, then the chosen button's callable is invoked,
\* each at most once and in this order: no echo after the callable has
\* started, no hook after the list is displayed.
C12_SelectStepsInOrder ==
    BenchIs("select") =>
        /\ IsPrefix(Bench.ev, SelectOrder(Bench))
        /\ Bench.pc = "return" => Bench.ev = SelectOrder(Bench)
        /\ ButtonCalls # <<>> => Bench.ev = SelectOrder(Bench) /\ Len(ButtonCalls) = 1
        /\ Bench.on_render = Stub("on_render") =>
                /\ Len(SelectSeq(calls, LAMBDA c : c = "on_render")) <= 1
                /\ InSeq("list", Bench.ev) => calls # <<>> /\ calls[1] = "on_render"
        /\ Bench.on_render = NoAction => ~InSeq("on_render", calls)

C12_Witness ==
    /\ BenchIs("select")
    /\ Len(stack) = 1
    /\ Bench.pc = "return"
    /\ Bench.print_selected_option
    /\ Bench.ev = <<"on_render", "list", "selected", "print", "press">>
    /\ calls = <<"on_render", "b1">>

\* some button of non_selectable_buttons has a name that no displayed button has
NameNotDisplayed(f) ==
    /\ ~f.non_selectable_buttons.none
    /\ \E k \in 1..Len(f.non_selectable_buttons.list) :
            \A i \in 1..Len(f.buttons) :
                f.buttons[i].name # f.non_selectable_buttons.list[k].name

C14_State ==
    BenchIs("select") =>
        /\ NameNotDisplayed(Bench) =>
            /\ Bench.pc \in {"on_render", "resolve"}
            /\ ~InSeq("list", Bench.ev)
            /\ ~InSeq("selected", Bench.ev)
            /\ ButtonCalls = <<>>
        /\ status = "failed" =>
            /\ NameNotDisplayed(Bench)
            /\ Len(stack) = 1
            /\ Bench.ev = <<"on_render">>
            /\ calls = IF Bench.on_render = Stub("on_render") THEN <<"on_render">> ELSE <<>>

C14_Step ==
    /\ (At("select", "resolve") /\ NameNotDisplayed(Top)) =>
            status' = "failed" /\ stack' = stack
    /\ status = "failed" => UNCHANGED vars

\* C14: when select is called with a non-selectable button whose name is not
\* the name of any displayed button, the call fails with an error nothing
\* recovers from, after the pre-render hook has run and before any list is
\* displayed, any selection is made or any button callable is invoked.
C14_UnknownNonSelectableFails == []C14_State /\ [][C14_Step]_vars

C14_Witness ==
    /\ BenchIs("select")
    /\ status = "failed"
    /\ Len(Bench.buttons) = 2
    /\ Bench.non_selectable_buttons.list = <<Button("A", NoAction), Button("Z", NoAction)>>
    /\ Bench.buttons[1].name = "A"
    /\ calls = <<"on_render">>

---------------------------------------------------------------------------
(* Validator bench *)

InitValidators ==
    /\ probe \in { [v |-> v, arg |-> s, res |-> Pass, done |-> FALSE] :
                        v \in BenchValidators, s \in BenchStrings }
    /\ stack = <<>>
    /\ ret = None
    /\ status = "running"
    /\ cwd = "/p"
    /\ fs = InitFs
    /\ header = None
    /\ conv = NoConv
    /\ rm = NoRm
    /\ calls = <<>>

\* validator(value) is called
Apply(name) ==
    /\ ~probe.done
    /\ probe.v.v = name
    /\ probe' = [probe EXCEPT !.res = Validate(probe.v, probe.arg), !.done = TRUE]
    /\ UNCHANGED <<stack, ret, status, cwd, fs, header, conv, rm, calls>>

apply_not_empty == Apply("not_empty")
apply_only_digit_validator == Apply("only_digit_validator")
apply_is_path_valid == Apply("is_path_valid")
apply_list_len_validator == Apply("list_len_validator")
apply_list_elems_validator == Apply("list_elems_validator")

NextValidators ==
    \/ apply_not_empty
    \/ apply_only_digit_validator
    \/ apply_is_path_valid
    \/ apply_list_len_validator
    \/ apply_list_elems_validator

Validators == InitValidators /\ [][NextValidators]_vars

\* the (0-based token index, element validator position) pairs that fail over
\* the tokens of value split on sep, in the order token first, validator second
FailingPairs(sep, elems, value) ==
    LET tokens == Split(value, sep)
    IN { <<i, j>> \in (0..(Len(tokens) - 1)) \X (1..Len(elems)) :
            ~ElemValidate(elems[j], tokens[i + 1]).ok }

\* C10: list_elems_validator(sep, elem_validators) passes on s iff no (token,
\* element validator) pair fails over the tokens of s split on sep; otherwise
\* it fails once, with one line per failing pair, all of them, in order, each
\* line naming the token's value and its zero-based index.  With the numeric
\* validator "1 2 x" gives exactly the line of token "x" at index 2 and
\* "1 2 3" passes.
C10_ListElemsCollectsAllFailures ==
    (probe.done /\ probe.v.v = "list_elems_validator") =>
        LET sep == probe.v.sep
            elems == probe.v.elems
            tokens == Split(probe.arg, sep)
            failing == FailingPairs(sep, elems, probe.arg)
            before(p, q) == p[1] < q[1] \/ (p[1] = q[1] /\ p[2] < q[2])
            nth(k) == CHOOSE p \in failing :
                        Cardinality({q \in failing : before(q, p)}) = k - 1
            lines == Split(probe.res.msg, "\n")
        IN /\ probe.res.ok <=> failing = {}
           /\ ~probe.res.ok =>
                /\ Len(lines) = Cardinality(failing)
                /\ \A k \in 1..Len(lines) :
                     lines[k] = ElemErrorLine(tokens[nth(k)[1] + 1], nth(k)[1],
                                    ElemValidate(elems[nth(k)[2]], tokens[nth(k)[1] + 1]).msg)
           /\ (probe.arg = "1 2 x" /\ elems = <<"only_digit_validator">>) =>
                /\ ~probe.res.ok
                /\ lines = <<ElemErrorLine("x", 2, only_digit_validator("x").msg)>>
           /\ (probe.arg = "1 2 3" /\ elems = <<"only_digit_validator">>) => probe.res.ok

C10_Witness ==
    /\ probe.done
    /\ probe.v = ListElems(" ", <<"only_digit_validator">>)
    /\ probe.arg = "1 2 x"
    /\ ~probe.res.ok
    /\ probe.res.msg = "Error for element 'x' at number 2: Value 'x' is not a number."

\* several failing pairs in one string: two tokens, and two validators on one token
C10_WitnessSeveral ==
    /\ probe.done
    /\ probe.v = ListElems(" ", <<"only_digit_validator", "not_empty">>)
    /\ probe.arg = "x  1"
    /\ Len(Split(probe.res.msg, "\n")) = 3

\* the number of tokens of value split on the one-character separator sep:
\* one more than the number of separators in value
TokenCount(value, sep) == Cardinality({i \in 1..Len(value) : Char(value, i) = sep}) + 1

\* C11: list_len_validator(n, sep) applied to s fails iff splitting s on sep
\* does not yield exactly n tokens, and on failure its message reports the
\* actual token count; for n = 3 and sep = " ", "a b c" passes and "a b"
\* fails reporting 2.
C11_ListLenFailsIffCountDiffers ==
    (probe.done /\ probe.v.v = "list_len_validator") =>
        LET n == probe.v.n
            count == TokenCount(probe.arg, probe.v.sep)
        IN /\ probe.res.ok <=> count = n
           /\ ~probe.res.ok => EndsWith(probe.res.msg, ". Now " \o ToString(count) \o ".")
           /\ (probe.arg = "a b c" /\ n = 3) => probe.res.ok
           /\ (probe.arg = "a b" /\ n = 3) =>
                    ~probe.res.ok /\ EndsWith(probe.res.msg, ". Now 2.")

C11_Witness ==
    /\ probe.done
    /\ probe.v = ListLen(3, " ")
    /\ probe.arg = "a b"
    /\ probe.res = Raise("The number of elements must be 3. Now 2.")

---------------------------------------------------------------------------
(* The application: main_menu and the actions *)

Exit == "Exit"      \* the label of the exit button and of every back button

\* os.listdir(os.getcwd()) filtered by os.path.isfile
Listing == SelectSeq(DirOrder, LAMBDA f : f \in fs[cwd])

RECURSIVE files_in_cwd_with_exts(_)
files_in_cwd_with_exts(exts) ==
    IF Len(exts) = 0 THEN <<>>
    ELSE SelectSeq(Listing, LAMBDA f : EndsWith(f, "." \o Head(exts)))
         \o files_in_cwd_with_exts(Tail(exts))

file_list(exts) == IF Len(exts) = 0 THEN Listing ELSE files_in_cwd_with_exts(exts)

\* the buttons of main_menu
TopButtons ==
    << Button("Change working directory", Callable("change_dir", <<>>)),
       Button("Convert PDF to DOCX", Callable("pdf_to_docx", <<>>)),
       Button("Convert DOCX to PDF", Callable("docx_to_pdf", <<>>)),
       Button("Compress images", Callable("compress_images", <<>>)),
       Button("Remove a group of files", Callable("rm_files_group", <<>>)),
       Button(Exit, Callable("exit", <<>>)) >>

\* a back button that does nothing, so that the submenu's select returns
BackButtonReturns == Button(Exit, Callable("none", <<>>))

BackButton == Button(Exit, Callable("main_menu", <<>>))

\* menu_head()
main_menu_head ==
    /\ At("main_menu", "menu_head")
    /\ header' = cwd
    /\ stack' = Goto("loop")
    /\ UNCHANGED <<ret, status, cwd, fs, conv, rm, calls, probe>>

\* a main_menu without the loop: select(...) once
main_menu_select_once ==
    /\ At("main_menu", "loop")
    /\ stack' = CallFrom("return", SelectFrame(TopButtons, NoButtons, NoAction, TRUE))
    /\ conv' = NoConv
    /\ rm' = NoRm
    /\ UNCHANGED <<ret, status, cwd, fs, header, calls, probe>>

\* one turn of while True: select(...).  conv and rm hold what was done
\* since the top-level list was last displayed.
main_menu_select ==
    /\ At("main_menu", "loop")
    /\ stack' = CallFrom("loop", SelectFrame(TopButtons, NoButtons, NoAction, TRUE))
    /\ conv' = NoConv
    /\ rm' = NoRm
    /\ UNCHANGED <<ret, status, cwd, fs, header, calls, probe>>

\* sys.exit(): SystemExit is caught nowhere
exit_run ==
    /\ At("exit", "start")
    /\ status' = "exited"
    /\ UNCHANGED <<stack, ret, cwd, fs, header, conv, rm, calls, probe>>

\* the file a conversion button converts.  The lambda reads the comprehension
\* variable `file` when it is called, after the comprehension has ended: every
\* button of the list holds the last file of the listing.
ConvertedFile(files, i) == files[Len(files)]

ConvertButtons(k, files) ==
    [i \in 1..Len(files) |-> Button(files[i], Callable(k, <<ConvertedFile(files, i)>>))]

pdf_to_docx_start ==
    /\ At("pdf_to_docx", "start")
    /\ stack' = CallFrom("return",
            SelectFrame(ConvertButtons("to_docx", file_list(<<"pdf">>)) \o <<BackButton>>,
                        NoButtons, NoAction, FALSE))
    /\ UNCHANGED <<ret, status, cwd, fs, header, conv, rm, calls, probe>>

docx_to_pdf_start ==
    /\ At("docx_to_pdf", "start")
    /\ stack' = CallFrom("return",
            SelectFrame(ConvertButtons("to_pdf", file_list(<<"docx">>)) \o <<BackButton>>,
                        NoButtons, NoAction, FALSE))
    /\ UNCHANGED <<ret, status, cwd, fs, header, conv, rm, calls, probe>>

\* ToDocxConverter(file).convert(...) / convert_to_pdf(file, ...): the library
\* is called with the file; it returns or raises
convert_run ==
    /\ Running
    /\ Top.fn \in {"to_docx", "to_pdf"}
    /\ Top.pc = "start"
    /\ conv' = [lib |-> Top.fn, files |-> Top.arg, quality |-> None]
    /\ \E raises \in BOOLEAN :
        IF raises THEN Throw("Exception")
        ELSE status' = status /\ stack' = Goto("return")
    /\ UNCHANGED <<ret, cwd, fs, header, rm, calls, probe>>

CompressionValidators == <<Validator("only_digit_validator"), Validator("not_empty")>>

compress_images_start ==
    /\ At("compress_images", "start")
    /\ LET files == file_list(<<"jpeg", "jpg", "png", "gif">>)
       IN stack' = CallFrom("return",
            SelectFrame([i \in 1..Len(files) |->
                            Button(files[i], Callable("compress_one", <<files[i]>>))]
                        \o << Button("Compress all files in the directory",
                                     Callable("compress_all", files)),
                              BackButton >>,
                        NoButtons, NoAction, FALSE))
    /\ UNCHANGED <<ret, status, cwd, fs, header, conv, rm, calls, probe>>

\* the compression value is asked for: validated_input(...)
compress_input ==
    /\ Running
    /\ Top.fn \in {"compress_one", "compress_all"}
    /\ Top.pc = "start"
    /\ stack' = CallFrom("save", ValidatedInputFrame(CompressionValidators, NoAction))
    /\ UNCHANGED <<ret, status, cwd, fs, header, conv, rm, calls, probe>>

\* Image.open(f).save(..., quality=int(value), ...): int raises ValueError on
\* a value that is no integer literal; the library returns or raises.  In
\* get_compression_value_and_apply_to int is called inside the loop over the
\* files, and not at all when there is none.
compress_save ==
    /\ Running
    /\ Top.fn \in {"compress_one", "compress_all"}
    /\ Top.pc = "save"
    /\ IF Len(Top.arg) = 0
       THEN /\ conv' = [lib |-> Top.fn, files |-> Top.arg, quality |-> None]
            /\ status' = status
            /\ stack' = Goto("return")
       ELSE IF ~ParsesAsInt(ret)
       THEN /\ conv' = conv
            /\ Throw("ValueError")
       ELSE /\ conv' = [lib |-> Top.fn, files |-> Top.arg, quality |-> ret]
            /\ \E raises \in BOOLEAN :
                IF raises THEN Throw("Exception")
                ELSE status' = status /\ stack' = Goto("return")
    /\ UNCHANGED <<ret, cwd, fs, header, rm, calls, probe>>

\* rm_files(files): the files removed from the directory before os.remove
\* raises (FileNotFoundError on a file that is not there), and the list returned
RECURSIVE Removable(_, _)
Removable(files, present) ==
    IF Len(files) = 0 \/ Head(files) \notin present THEN <<>>
    ELSE <<Head(files)>> \o Removable(Tail(files), present \ {Head(files)})

\* the list rm_files returns: `removed`, which nothing is ever appended to
rm_files(files) == <<>>

\* targets that take the files starting with s whatever the action
RmTargetsStartsWith(fn, s, files) == SelectSeq(files, LAMBDA f : StartsWith(f, s))

\* targets of a removal by extension that uses the extension it is given
RmTargetsGivenExtension(fn, s, files) ==
    CASE fn = "rm_files_startswith" -> SelectSeq(files, LAMBDA f : StartsWith(f, s))
      [] fn = "rm_files_endswith" -> SelectSeq(files, LAMBDA f : EndsWith(f, s))
      [] fn = "rm_files_contains" -> SelectSeq(files, LAMBDA f : Contains(f, s))
      [] fn = "rm_files_by_extension" -> files_in_cwd_with_exts(<<s>>)

\* the files an rm_files_* action passes to rm_files
RmTargets(fn, s, files) ==
    CASE fn = "rm_files_startswith" -> SelectSeq(files, LAMBDA f : StartsWith(f, s))
      [] fn = "rm_files_endswith" -> SelectSeq(files, LAMBDA f : EndsWith(f, s))
      [] fn = "rm_files_contains" -> SelectSeq(files, LAMBDA f : Contains(f, s))
      [] fn = "rm_files_by_extension" -> files_in_cwd_with_exts(<<"ext">>)

RmActions == {"rm_files_startswith", "rm_files_endswith", "rm_files_contains",
              "rm_files_by_extension"}

SubstrValidators == <<Validator("not_empty")>>

rm_files_group_start ==
    /\ At("rm_files_group", "start")
    /\ LET files == file_list(<<>>)
       IN stack' = CallFrom("return",
            SelectFrame(<< Button("Remove all files starting with a substring",
                                  Callable("rm_files_startswith", files)),
                           Button("Remove all files ending with a substring",
                                  Callable("rm_files_endswith", files)),
                           Button("Remove all files containing a substring",
                                  Callable("rm_files_contains", files)),
                           Button("Remove all files by extension",
                                  Callable("rm_files_by_extension", <<>>)),
                           BackButton >>,
                        NoButtons, Callable("clear", <<>>), FALSE))
    /\ UNCHANGED <<ret, status, cwd, fs, header, conv, rm, calls, probe>>

\* the argument of the action is asked for: validated_input(...)
rm_input ==
    /\ Running
    /\ Top.fn \in RmActions
    /\ Top.pc = "start"
    /\ stack' = CallFrom("rm", ValidatedInputFrame(SubstrValidators, NoAction))
    /\ UNCHANGED <<ret, status, cwd, fs, header, conv, rm, calls, probe>>

\* for f in rm_files(...): successfully_removed_message_for_file(f)
rm_run ==
    /\ Running
    /\ Top.fn \in RmActions
    /\ Top.pc = "rm"
    /\ LET targets == RmTargets(Top.fn, ret, Top.arg)
           gone == Removable(targets, fs[cwd])
       IN /\ fs' = [fs EXCEPT ![cwd] = @ \ {gone[i] : i \in 1..Len(gone)}]
          /\ IF Len(gone) < Len(targets)
             THEN /\ Throw("FileNotFoundError")
                  /\ rm' = [called |-> TRUE, fn |-> Top.fn, s |-> ret, files |-> Top.arg,
                            removed |-> {gone[i] : i \in 1..Len(gone)}, printed |-> 0]
             ELSE /\ status' = status
                  /\ stack' = Goto("return")
                  /\ rm' = [called |-> TRUE, fn |-> Top.fn, s |-> ret, files |-> Top.arg,
                            removed |-> {gone[i] : i \in 1..Len(gone)},
                            printed |-> Len(rm_files(targets))]
    /\ UNCHANGED <<ret, cwd, header, conv, calls, probe>>

\* confirmation_prompt(...) is called for the argument of os.chdir
change_dir_start ==
    /\ At("change_dir", "start")
    /\ stack' = CallFrom("chdir", ConfirmationFrame(Callable("input_path", <<>>),
                                                    Callable("getcwd", <<>>)))
    /\ UNCHANGED <<ret, status, cwd, fs, header, conv, rm, calls, probe>>

\* a change_dir that ends after os.chdir
AfterChdirReturn == "return"

\* where change_dir goes on after os.chdir
AfterChdir == "main_menu"

\* os.chdir(...)
change_dir_chdir ==
    /\ At("change_dir", "chdir")
    /\ IF ret \in Dirs
       THEN cwd' = ret /\ status' = status /\ stack' = Goto(AfterChdir)
       ELSE cwd' = cwd /\ Throw("FileNotFoundError")
    /\ UNCHANGED <<ret, fs, header, conv, rm, calls, probe>>

\* main_menu()
change_dir_main_menu ==
    /\ At("change_dir", "main_menu")
    /\ Depth < MaxDepth
    /\ stack' = CallFrom("return", MainMenuFrame)
    /\ UNCHANGED <<ret, status, cwd, fs, header, conv, rm, calls, probe>>

Init ==
    /\ stack = <<MainMenuFrame>>
    /\ ret = None
    /\ status = "running"
    /\ cwd = "/p"
    /\ fs = InitFs
    /\ header = None
    /\ conv = NoConv
    /\ rm = NoRm
    /\ calls = <<>>
    /\ probe = NoProbe

Next ==
    \/ main_menu_head
    \/ main_menu_select
    \/ select_on_render
    \/ select_resolve
    \/ cutie_key_up
    \/ cutie_key_down
    \/ cutie_key_confirm
    \/ select_print_selected
    \/ select_press
    \/ return_none
    \/ exit_run
    \/ pdf_to_docx_start
    \/ docx_to_pdf_start
    \/ convert_run
    \/ compress_images_start
    \/ compress_input
    \/ compress_save
    \/ rm_files_group_start
    \/ rm_input
    \/ rm_run
    \/ change_dir_start
    \/ change_dir_chdir
    \/ change_dir_main_menu
    \/ cp_prompt
    \/ cp_return
    \/ getcwd_run
    \/ vi_input
    \/ vi_validate
    \/ vi_on_successful_confirm
    \/ vi_return

Spec == Init /\ [][Next]_vars

---------------------------------------------------------------------------
(* Claims about the application *)

Range(s) == {s[i] : i \in 1..Len(s)}

\* the innermost activation of main_menu
InnerMain == CHOOSE i \in 1..Len(stack) :
                /\ stack[i].fn = "main_menu"
                /\ \A j \in (i + 1)..Len(stack) : stack[j].fn # "main_menu"

IsTopLevelSelect(f) == f.fn = "select" /\ f.buttons = TopButtons

\* every activation above the innermost main_menu has nothing left to do but
\* return, and that main_menu is in its loop
ReturnsToLoop ==
    /\ stack[InnerMain].pc = "loop"
    /\ \A i \in (InnerMain + 1)..Len(stack) : stack[i].pc = "return"

\* the model cannot go on only because it bounds the nesting of main_menu
DepthBlocked ==
    /\ Depth = MaxDepth
    /\ \/ At("change_dir", "main_menu")
       \/ At("select", "press") /\ PressedButton(Top).action.k = "main_menu"

\* C5: in the remove-file-group flows by prefix, by suffix and by substring,
\* the number of "successfully removed" lines printed equals the number of
\* files the action removed.
C5_OneLinePerRemovedFile ==
    (rm.called /\ rm.fn \in {"rm_files_startswith", "rm_files_endswith", "rm_files_contains"}) =>
        rm.printed = Cardinality(rm.removed)

\* what holds once rm_files_contains has removed the files
C6_State ==
    /\ At("rm_files_contains", "rm") => Top.arg = Listing
    /\ At("rm_files_contains", "return") =>
        /\ rm.called /\ rm.fn = "rm_files_contains"
        /\ not_empty(rm.s).ok
        /\ rm.files = Top.arg
        /\ rm.removed = {f \in Range(Top.arg) : Contains(f, rm.s)}
        /\ Len(stack) = InnerMain + 4
        /\ IsTopLevelSelect(stack[InnerMain + 1])
        /\ stack[InnerMain + 2].fn = "rm_files_group"
        /\ stack[InnerMain + 3].fn = "select"
        /\ ReturnsToLoop

\* the removal itself, the returns, and the next turn of the loop
C6_Step ==
    /\ At("rm_files_contains", "rm") =>
        /\ status' = "running"
        /\ stack' = Goto("return")
        /\ fs' = [fs EXCEPT ![cwd] = @ \ {f \in Range(Top.arg) : Contains(f, ret)}]
    /\ (Running /\ Top.pc = "return") => stack' = Pop /\ status' = "running"
    /\ At("main_menu", "loop") =>
        /\ Len(stack') = Len(stack) + 1
        /\ IsTopLevelSelect(stack'[Len(stack')])
        /\ stack'[Len(stack')].pc = "on_render"
        /\ stack'[Len(stack)] = Top

\* C6: from the top-level menu, 'remove file group', then 'delete by
\* substring' with an accepted substring s removes exactly the files listed
\* when the submenu was built whose name contains s, and no other file; then
\* every activation returns up to the loop of main_menu, whose next turn
\* presents the top-level buttons again.
C6_RemovesContainingThenBackToLoop == []C6_State /\ [][C6_Step]_vars

C6_Witness ==
    /\ At("rm_files_contains", "return")
    /\ rm.s = "draft"
    /\ rm.removed = {"draft1.pdf", "my_draft.docx"}
    /\ fs[cwd] = {"b.pdf", "c.docx", "e.png", "f.ext"}

\* what holds of the top-level loop in every state
C7_State ==
    /\ status \in {"running", "exited", "failed"}
    /\ Len(stack) >= 1
    /\ stack[1].fn = "main_menu"
    /\ stack[InnerMain].pc \in {"menu_head", "loop"}
    /\ status = "running" => (ENABLED Next \/ DepthBlocked)
    /\ status = "exited" =>
        /\ Top.fn = "exit"
        /\ Len(stack) = InnerMain + 2
        /\ IsTopLevelSelect(stack[InnerMain + 1])
        /\ PressedButton(stack[InnerMain + 1]).name = Exit

\* the steps of the top-level loop
C7_Step ==
    /\ At("exit", "start") => status' = "exited"
    /\ status # "running" => UNCHANGED vars
    /\ (status = "running" /\ status' = "failed") =>
            \/ Top.fn \in {"to_docx", "to_pdf", "compress_one", "compress_all"}
            \/ Top.fn \in RmActions
    /\ (At("select", "press") /\ IsTopLevelSelect(Top) /\ Top.selected_index = 5) =>
            stack'[Len(stack')].fn = "exit"
    /\ At("main_menu", "loop") =>
        /\ Len(stack') = Len(stack) + 1
        /\ IsTopLevelSelect(stack'[Len(stack')])
    /\ (Running /\ IsTopLevelSelect(Top) /\ Top.pc = "return") =>
        /\ stack' = Pop
        /\ stack'[Len(stack')].fn = "main_menu"
        /\ stack'[Len(stack')].pc = "loop"

\* C7: the top-level loop ends only with the process: main_menu never
\* returns, a running process can always take a step, it stops only by Exit
\* or by an action's failure, every completed top-level action leads to the
\* next turn of the loop, which presents the top-level buttons, and selecting
\* Exit at the top level terminates the process.
C7_LoopEndsOnlyWithProcess == []C7_State /\ [][C7_Step]_vars

C7_Witness ==
    /\ status = "exited"
    /\ Depth = 2
    /\ fs[cwd] # InitFs[cwd]

\* C8 as stated: no top-level action completes by returning to the select
\* call of the loop that invoked it.
C8_ActionsNeverReturnToLoop ==
    ~(Running /\ IsTopLevelSelect(Top) /\ Top.pc = "return")

\* C8, amended: change_dir and the back button of every submenu re-enter the
\* top-level cycle by calling main_menu, and never return to the loop that
\* called them; every other completion (a conversion, a compression, a
\* removal) re-enters it by returning to that loop.
C8_ReentryByCallOrByReturn ==
    /\ ~At("change_dir", "return")
    /\ \A i \in 2..Len(stack) :
        stack[i].fn = "main_menu" =>
            \/ stack[i - 1].fn = "change_dir" /\ stack[i - 1].pc = "return"
            \/ /\ stack[i - 1].fn = "select" /\ stack[i - 1].pc = "return"
               /\ ~IsTopLevelSelect(stack[i - 1])
               /\ PressedButton(stack[i - 1]) = BackButton
    /\ (Running /\ IsTopLevelSelect(Top) /\ Top.pc = "return") =>
        /\ PressedButton(Top).action.k \in
                {"pdf_to_docx", "docx_to_pdf", "compress_images", "rm_files_group"}
        /\ conv # NoConv \/ rm.called
        /\ stack[Len(stack) - 1].fn = "main_menu"
        /\ stack[Len(stack) - 1].pc = "loop"

C8_Witness ==
    /\ Running /\ IsTopLevelSelect(Top) /\ Top.pc = "return"
    /\ Depth = 2
    /\ stack[InnerMain - 1].fn = "change_dir"
    /\ conv.lib = "to_docx"

\* the callables that buttons of the submenus run and that may fail
FailingActions == {"to_docx", "to_pdf", "compress_one", "compress_all"} \cup RmActions

C13_State ==
    status = "failed" =>
        /\ Top.fn \in FailingActions
        /\ Len(stack) = InnerMain + 4
        /\ stack[Len(stack) - 1].fn = "select"
        /\ stack[Len(stack) - 1].pc = "return"
        /\ PressedButton(stack[Len(stack) - 1]).action.k = Top.fn
        /\ IsTopLevelSelect(stack[InnerMain + 1])
        /\ stack[InnerMain].pc = "loop"

C13_Step ==
    /\ status = "failed" => UNCHANGED vars
    /\ (Running /\ Top.fn \in FailingActions /\ Top.pc # "return"
            /\ Len(stack') <= Len(stack)) =>
            \/ status' = "running" /\ stack' = Goto("return")
            \/ status' = "failed" /\ stack' = stack
    /\ (Running /\ Len(stack') < Len(stack)) =>
            /\ stack' = Pop
            /\ Top.pc \in {"return", "return_value", "return_result"} \/ Top.fn = "getcwd"

\* C13: a failure raised by the callable of the chosen button is not caught
\* by select: the select that pressed the button, the submenu, the top-level
\* select and the loop of main_menu are all left with the process, which
\* terminates; nothing is rendered after an action's failure.
C13_ActionFailureEndsProcess == []C13_State /\ [][C13_Step]_vars

C13_Witness ==
    /\ status = "failed"
    /\ Top.fn = "to_docx"
    /\ Depth = 2
    /\ IsTopLevelSelect(stack[InnerMain + 1])
    /\ stack[InnerMain + 3].fn = "select"

\* the back button of a submenu has been chosen and is about to be pressed
BackPressed ==
    At("select", "press") /\ ~IsTopLevelSelect(Top) /\ PressedButton(Top).name = Exit

\* the next step of the program is a call of main_menu from an action
Reenters == BackPressed \/ At("change_dir", "main_menu")

\* at a re-entry there is a next step unless the model's bound on the nesting
\* is reached: no bound of the program stops the nesting
C15_State == Reenters => (ENABLED Next <=> Depth < MaxDepth)

C15_Step ==
    /\ Depth' >= Depth
    /\ Depth' > Depth => Reenters
    /\ Reenters =>
        /\ Depth' = Depth + 1
        /\ Len(stack') = Len(stack) + 1
        /\ stack'[Len(stack')] = MainMenuFrame
        /\ SubSeq(stack', 1, Len(stack) - 1) = Pop
    /\ (At("change_dir", "chdir") /\ status' = "running") =>
            stack' = Goto("main_menu")

\* C15: navigation is by nested calls: each selection of a submenu's back
\* button and each completion of change_dir starts a new activation of
\* main_menu inside the current ones, the number of active activations of
\* main_menu never decreases, and nothing in the program bounds it.
C15_NestingOnlyGrows == []C15_State /\ [][C15_Step]_vars

C15_Witness ==
    /\ Depth = MaxDepth
    /\ stack[InnerMain - 1].fn = "select"
    /\ stack[InnerMain - 2].fn = "rm_files_group"
    /\ stack[InnerMain].pc = "loop"

\* the regular files of the working directory whose name ends with ".ext"
PlaceholderFiles == {f \in fs[cwd] : EndsWith(f, ".ext")}

C16_State ==
    At("rm_files_by_extension", "rm") =>
        /\ not_empty(ret).ok
        /\ \A s \in {l \in InputLines : not_empty(l).ok} :
                Range(RmTargets(Top.fn, s, Top.arg)) = PlaceholderFiles

C16_Step ==
    At("rm_files_by_extension", "rm") =>
        /\ fs' = [fs EXCEPT ![cwd] = @ \ PlaceholderFiles]
        /\ rm'.removed = PlaceholderFiles
        /\ rm'.s = ret
        /\ status' = "running"

\* C16: 'remove by extension' ignores the extension the user entered: for
\* the same directory contents the files removed are the same for every
\* accepted input, namely the regular files whose name ends with ".ext".
C16_ExtensionIgnored == []C16_State /\ [][C16_Step]_vars

C16_Witness ==
    /\ At("rm_files_by_extension", "return")
    /\ rm.s = "draft"
    /\ rm.removed = {"f.ext"}
    /\ fs[cwd] = {"draft1.pdf", "b.pdf", "my_draft.docx", "c.docx", "e.png"}

\* the confirmation prompt of change_dir is activation i and has had its answer
ChangeDirAnswered(i) ==
    /\ i \in 2..Len(stack)
    /\ stack[i].fn = "confirmation_prompt"
    /\ stack[i - 1].fn = "change_dir"
    /\ stack[i].pc = "return_result"

C18_State ==
    /\ \A i \in 2..Len(stack) :
        ChangeDirAnswered(i) =>
            IF stack[i].invoked[1].answer
            THEN /\ Len(stack) > i =>
                        /\ Len(stack) = i + 1
                        /\ stack[i + 1].fn = "validated_input"
                        /\ stack[i + 1].validators = <<Validator("is_path_valid")>>
                 /\ Len(stack) = i => ret \in Dirs /\ ret \in InputLines
            ELSE /\ Len(stack) > i => Len(stack) = i + 1 /\ stack[i + 1].fn = "getcwd"
                 /\ Len(stack) = i => ret = cwd
    /\ At("change_dir", "chdir") => ret \in Dirs
    /\ (status = "running" /\ stack[InnerMain].pc = "loop"
            /\ ~\E i \in 1..Len(stack) :
                    stack[i].fn = "change_dir" /\ stack[i].pc = "main_menu") =>
            header = cwd

C18_Step ==
    /\ At("confirmation_prompt", "return_result") =>
            ret' = ret /\ cwd' = cwd /\ stack' = Pop
    /\ At("change_dir", "chdir") =>
            cwd' = ret /\ status' = "running" /\ stack' = Goto("main_menu")
    /\ cwd' # cwd => At("change_dir", "chdir")
    /\ At("change_dir", "main_menu") => stack' = CallFrom("return", MainMenuFrame)
    /\ At("main_menu", "menu_head") => header' = cwd /\ cwd' = cwd

\* C18: in change_dir, rejecting the confirmation reads no text input and
\* leaves the working directory as it is; confirming changes it only to a
\* value that passed the existing-directory validator, after any number of
\* rejected entries; in both cases a new activation of main_menu follows,
\* whose header shows the resulting working directory.
C18_ChangeDirFrame == []C18_State /\ [][C18_Step]_vars

C18_Witness ==
    /\ cwd = "/q"
    /\ header = "/q"
    /\ Depth = 2
    /\ stack[InnerMain].pc = "loop"
    /\ stack[InnerMain - 1].fn = "change_dir"
    /\ stack[InnerMain - 1].pc = "return"

\* C17: in the PDF-to-DOCX and DOCX-to-PDF submenus the file passed to the
\* converter is the one whose name is shown on the selected button, for every
\* position in the list.
C17_ConvertsSelectedFile ==
    \A i \in 2..Len(stack) :
        stack[i].fn \in {"to_docx", "to_pdf"} =>
            stack[i].arg = <<PressedButton(stack[i - 1]).name>>

\* C19: in the compress-images flows every value the compression prompt
\* accepted is converted to an integer quality without error.
C19_AcceptedValueConvertsToInt ==
    (Running /\ Top.fn \in {"compress_one", "compress_all"} /\ Top.pc = "save"
        /\ Len(Top.arg) > 0) => ParsesAsInt(ret)

====
